---- MODULE Spec2Model ----
\* National Grid Reference conversions of package ngr (src/ngr.go): the
\* parser NewGridRefFromString, the formatter String, the two conversions
\* ToLatLon and ToGridRef, the pattern ngrCre and the two myriad tables.
\* Go strings are TLA+ strings; a byte of a string is a string of length 1.
EXTENDS Integers, Sequences, FiniteSets, TLC

VARIABLES calls

vars == <<calls>>

\* ---------------------------------------------------------------- bounds
\* Longest chain of calls, each made on the result of the one before.
MaxCalls == 2
\* Digit strings of the inputs run from length 0 to MaxDigits (the program
\* accepts 0..5).
MaxDigits == 6
\* Resolutions asked of ToGridRef run from -ResolutionSlack to
\* 5 + ResolutionSlack (the program accepts 0..5).
ResolutionSlack == 8

\* ------------------------------------------------------- strings, numbers
At(s, k) == SubSeq(s, k, k)

Letters == "ABCDEFGHIJKLMNOPQRSTUVWXYZ"

DigitChars == "0123456789"

\* The 1-based position of the one-byte string c in s, 0 when absent.
IndexOf(c, s) ==
    IF \E k \in 1..Len(s) : At(s, k) = c
    THEN CHOOSE k \in 1..Len(s) : At(s, k) = c
    ELSE 0

\* The bytes lo..hi of a character class such as [F-H].
Range(lo, hi) == { At(Letters, k) : k \in IndexOf(lo, Letters)..IndexOf(hi, Letters) }

IsDigit(c) == IndexOf(c, DigitChars) > 0

DigitVal(c) == IndexOf(c, DigitChars) - 1

AllDigits(s) == \A k \in 1..Len(s) : IsDigit(At(s, k))

\* Go's integer division and remainder truncate toward zero.
GoDiv(a, b) == IF a >= 0 THEN a \div b ELSE -((-a) \div b)

GoRem(a, b) == IF a >= 0 THEN a % b ELSE -((-a) % b)

\* Pow10 with the exponent taken one too high.
Pow10_OneTooHigh(e) == IF e < 0 THEN 0 ELSE 10 ^ (e + 1)

\* int(math.Pow(10, float64(e))): exact for e >= 0, and a fraction below 1
\* that converts to 0 for e < 0.
Pow10(e) == IF e < 0 THEN 0 ELSE 10 ^ e

RECURSIVE DigitsValue(_)
DigitsValue(s) ==
    IF s = "" THEN 0
    ELSE 10 * DigitsValue(SubSeq(s, 1, Len(s) - 1)) + DigitVal(At(s, Len(s)))

\* strconv.Atoi: an optional sign, then one or more decimal digits.
Atoi(s) ==
    LET signed == Len(s) >= 1 /\ At(s, 1) \in {"+", "-"}
        body == IF signed THEN Tail(s) ELSE s
    IN IF body = "" \/ ~AllDigits(body)
       THEN [ok |-> FALSE, val |-> 0]
       ELSE [ok |-> TRUE,
             val |-> IF signed /\ At(s, 1) = "-" THEN -DigitsValue(body)
                     ELSE DigitsValue(body)]

RECURSIVE Itoa(_)
Itoa(v) ==
    IF v < 0 THEN "-" \o Itoa(-v)
    ELSE IF v < 10 THEN At(DigitChars, v + 1)
    ELSE Itoa(v \div 10) \o At(DigitChars, (v % 10) + 1)

RECURSIVE Zeros(_)
Zeros(n) == IF n <= 0 THEN "" ELSE "0" \o Zeros(n - 1)

\* Sprintf with the format "%d": no padding to the width.
Sprintf_Unpadded(format, v) == Itoa(v)

\* fmt.Sprintf of the formats "%01d".."%05d": the decimal digits of v,
\* padded on the left with zeros to the width the format names. A value with
\* more digits than the width is written in full.
Sprintf(format, v) ==
    LET width == DigitVal(At(format, 3))
        digits == Itoa(v)
    IN IF v < 0 THEN "-" \o Zeros(width - Len(digits)) \o Itoa(-v)
       ELSE Zeros(width - Len(digits)) \o digits

\* ------------------------------------------------------------ the types
GC(e, n) == [Easting |-> e, Northing |-> n]

GridRef(m, e, n) == [myriad |-> m, easting |-> e, northing |-> n]

\* A nil *GridRef or *GridCoord, returned beside an error.
Nil == [nil |-> TRUE]

\* ----------------------------------------------------------- the tables
myriadOffsets ==
    "HF" :> GC(0, 1300000) @@ "HG" :> GC(100000, 1300000) @@ "HH" :> GC(200000, 1300000) @@ "HJ" :> GC(300000, 1300000) @@
    "HK" :> GC(400000, 1300000) @@ "HL" :> GC(0, 1200000) @@ "HM" :> GC(100000, 1200000) @@ "HN" :> GC(200000, 1200000) @@
    "HO" :> GC(300000, 1200000) @@ "HP" :> GC(400000, 1200000) @@ "HQ" :> GC(0, 1100000) @@ "HR" :> GC(100000, 1100000) @@
    "HS" :> GC(200000, 1100000) @@ "HT" :> GC(300000, 1100000) @@ "HU" :> GC(400000, 1100000) @@ "HV" :> GC(0, 1000000) @@
    "HW" :> GC(100000, 1000000) @@ "HX" :> GC(200000, 1000000) @@ "HY" :> GC(300000, 1000000) @@ "HZ" :> GC(400000, 1000000) @@
    "JF" :> GC(500000, 1300000) @@ "JG" :> GC(600000, 1300000) @@ "JH" :> GC(700000, 1300000) @@ "JL" :> GC(500000, 1200000) @@
    "JM" :> GC(600000, 1200000) @@ "JN" :> GC(700000, 1200000) @@ "JQ" :> GC(500000, 1100000) @@ "JR" :> GC(600000, 1100000) @@
    "JS" :> GC(700000, 1100000) @@ "JV" :> GC(500000, 1000000) @@ "JW" :> GC(600000, 1000000) @@ "JX" :> GC(700000, 1000000) @@
    "NA" :> GC(0, 900000) @@ "NB" :> GC(100000, 900000) @@ "NC" :> GC(200000, 900000) @@ "ND" :> GC(300000, 900000) @@
    "NE" :> GC(400000, 900000) @@ "NF" :> GC(0, 800000) @@ "NG" :> GC(100000, 800000) @@ "NH" :> GC(200000, 800000) @@
    "NJ" :> GC(300000, 800000) @@ "NK" :> GC(400000, 800000) @@ "NL" :> GC(0, 700000) @@ "NM" :> GC(100000, 700000) @@
    "NN" :> GC(200000, 700000) @@ "NO" :> GC(300000, 700000) @@ "NP" :> GC(400000, 700000) @@ "NQ" :> GC(0, 600000) @@
    "NR" :> GC(100000, 600000) @@ "NS" :> GC(200000, 600000) @@ "NT" :> GC(300000, 600000) @@ "NU" :> GC(400000, 600000) @@
    "NV" :> GC(0, 500000) @@ "NW" :> GC(100000, 500000) @@ "NX" :> GC(200000, 500000) @@ "NY" :> GC(300000, 500000) @@
    "NZ" :> GC(400000, 500000) @@ "OA" :> GC(500000, 900000) @@ "OB" :> GC(600000, 900000) @@ "OC" :> GC(700000, 900000) @@
    "OF" :> GC(500000, 800000) @@ "OG" :> GC(600000, 800000) @@ "OH" :> GC(700000, 800000) @@ "OL" :> GC(500000, 700000) @@
    "OM" :> GC(600000, 700000) @@ "ON" :> GC(700000, 700000) @@ "OQ" :> GC(500000, 600000) @@ "OR" :> GC(600000, 600000) @@
    "OS" :> GC(700000, 600000) @@ "OV" :> GC(500000, 500000) @@ "OW" :> GC(600000, 500000) @@ "OX" :> GC(700000, 500000) @@
    "SA" :> GC(0, 400000) @@ "SB" :> GC(100000, 400000) @@ "SC" :> GC(200000, 400000) @@ "SD" :> GC(300000, 400000) @@
    "SE" :> GC(400000, 400000) @@ "SF" :> GC(0, 300000) @@ "SG" :> GC(100000, 300000) @@ "SH" :> GC(200000, 300000) @@
    "SJ" :> GC(300000, 300000) @@ "SK" :> GC(400000, 300000) @@ "SL" :> GC(0, 200000) @@ "SM" :> GC(100000, 200000) @@
    "SN" :> GC(200000, 200000) @@ "SO" :> GC(300000, 200000) @@ "SP" :> GC(400000, 200000) @@ "SQ" :> GC(0, 100000) @@
    "SR" :> GC(100000, 100000) @@ "SS" :> GC(200000, 100000) @@ "ST" :> GC(300000, 100000) @@ "SU" :> GC(400000, 100000) @@
    "SV" :> GC(0, 0) @@ "SW" :> GC(100000, 0) @@ "SX" :> GC(200000, 0) @@ "SY" :> GC(300000, 0) @@
    "SZ" :> GC(400000, 0) @@ "TA" :> GC(500000, 400000) @@ "TB" :> GC(600000, 400000) @@ "TC" :> GC(700000, 400000) @@
    "TF" :> GC(500000, 300000) @@ "TG" :> GC(600000, 300000) @@ "TH" :> GC(700000, 300000) @@ "TL" :> GC(500000, 200000) @@
    "TM" :> GC(600000, 200000) @@ "TN" :> GC(700000, 200000) @@ "TQ" :> GC(500000, 100000) @@ "TR" :> GC(600000, 100000) @@
    "TS" :> GC(700000, 100000) @@ "TV" :> GC(500000, 0) @@ "TW" :> GC(600000, 0) @@ "TX" :> GC(700000, 0) @@
    "XA" :> GC(0, -100000) @@ "XB" :> GC(100000, -100000) @@ "XC" :> GC(200000, -100000) @@ "XD" :> GC(300000, -100000) @@
    "XE" :> GC(400000, -100000) @@ "YA" :> GC(500000, -100000) @@ "YB" :> GC(600000, -100000) @@ "YC" :> GC(700000, -100000)

myriadTable == <<
    <<"XA", "SV", "SQ", "SL", "SF", "SA", "NV", "NQ", "NL", "NF", "NA", "HV", "HQ", "HL", "HF">>,
    <<"XB", "SW", "SR", "SM", "SG", "SB", "NW", "NR", "NM", "NG", "NB", "HW", "HR", "HM", "HG">>,
    <<"XC", "SX", "SS", "SN", "SH", "SC", "NX", "NS", "NN", "NH", "NC", "HX", "HS", "HN", "HH">>,
    <<"XD", "SY", "ST", "SO", "SJ", "SD", "NY", "NT", "NO", "NJ", "ND", "HY", "HT", "HO", "HJ">>,
    <<"XE", "SZ", "SU", "SP", "SK", "SE", "NZ", "NU", "NP", "NK", "NE", "HZ", "HU", "HP", "HK">>,
    <<"YA", "TV", "TQ", "TL", "TF", "TA", "OV", "OQ", "OL", "OF", "OA", "JV", "JQ", "JL", "JF">>,
    <<"YB", "TW", "TR", "TM", "TG", "TB", "OW", "OR", "OM", "OG", "OB", "JW", "JR", "JM", "JG">>,
    <<"YC", "TX", "TS", "TN", "TH", "TC", "OX", "OS", "ON", "OH", "OC", "JX", "JS", "JN", "JH">>
>>

\* TableAt reading each row from the north end.
TableAt_Flipped(i, j) == myriadTable[i + 1][Len(myriadTable[i + 1]) - j]

\* myriadTable[i][j] with Go's 0-based indices.
TableAt(i, j) == myriadTable[i + 1][j + 1]

\* formatLookup with an entry for six digits.
formatLookup_WithSix ==
    0 :> [format |-> "", factor |-> 0] @@
    1 :> [format |-> "%01d", factor |-> 10000] @@
    2 :> [format |-> "%02d", factor |-> 1000] @@
    3 :> [format |-> "%03d", factor |-> 100] @@
    4 :> [format |-> "%04d", factor |-> 10] @@
    5 :> [format |-> "%05d", factor |-> 1] @@
    6 :> [format |-> "%06d", factor |-> 1]

formatLookup ==
    0 :> [format |-> "", factor |-> 0] @@
    1 :> [format |-> "%01d", factor |-> 10000] @@
    2 :> [format |-> "%02d", factor |-> 1000] @@
    3 :> [format |-> "%03d", factor |-> 100] @@
    4 :> [format |-> "%04d", factor |-> 10] @@
    5 :> [format |-> "%05d", factor |-> 1]

\* ngrCreMyriad with the first alternative written J[F-H].
ngrCreMyriad_JOnly == <<
    <<{"J"}, Range("F", "H")>>,
    <<{"N", "S"}, Range("A", "H")>>,
    <<{"H", "N", "S"}, Range("J", "Z")>>,
    <<{"O", "T", "Y"}, Range("A", "C")>>,
    <<{"O", "T"}, Range("F", "H")>>,
    <<{"J", "O", "T"}, Range("L", "N")>>,
    <<{"J", "O", "T"}, Range("Q", "S")>>,
    <<{"J", "O", "T"}, Range("V", "X")>>,
    <<{"X"}, Range("A", "E")>> >>

\* ---------------------------------------------------------------- ngrCre
\* The myriad group of ngrCre: nine alternatives, each a class of first
\* letters and a class of second letters.
ngrCreMyriad == <<
    <<{"J", "H"}, Range("F", "H")>>,
    <<{"N", "S"}, Range("A", "H")>>,
    <<{"H", "N", "S"}, Range("J", "Z")>>,
    <<{"O", "T", "Y"}, Range("A", "C")>>,
    <<{"O", "T"}, Range("F", "H")>>,
    <<{"J", "O", "T"}, Range("L", "N")>>,
    <<{"J", "O", "T"}, Range("Q", "S")>>,
    <<{"J", "O", "T"}, Range("V", "X")>>,
    <<{"X"}, Range("A", "E")>> >>

\* MatchMyriad taking the first letter from one alternative and the second
\* from any other.
MatchMyriad_Crossed(m) ==
    /\ Len(m) = 2
    /\ \E k \in DOMAIN ngrCreMyriad : At(m, 1) \in ngrCreMyriad[k][1]
    /\ \E k \in DOMAIN ngrCreMyriad : At(m, 2) \in ngrCreMyriad[k][2]

\* The two bytes m match the myriad group.
MatchMyriad(m) ==
    /\ Len(m) = 2
    /\ \E k \in DOMAIN ngrCreMyriad :
          /\ At(m, 1) \in ngrCreMyriad[k][1]
          /\ At(m, 2) \in ngrCreMyriad[k][2]

\* The alternative (?P<eastingD>\d{D}) ?(?P<northingD>\d{D}) against the
\* whole of rest (the pattern is anchored by $).
MatchDigitPair(rest, d) ==
    LET tight == Len(rest) = 2 * d
        spaced == Len(rest) = 2 * d + 1 /\ At(rest, d + 1) = " "
        e == SubSeq(rest, 1, d)
        n == SubSeq(rest, Len(rest) - d + 1, Len(rest))
    IN (tight \/ spaced) /\ AllDigits(e) /\ AllDigits(n)

NoMatch == [matched |-> FALSE, myriad |-> "", easting |-> "", northing |-> ""]

\* ngrCre.FindStringSubmatch(value), with the named groups that matched.
\* ^ myriad, then " ?", then the optional group of five alternatives, then $.
\* The byte after the myriad is taken by " ?" whenever it is a space: nothing
\* that may follow in the pattern can match a space there.
ngrCre(value) ==
    IF Len(value) < 2 \/ ~MatchMyriad(SubSeq(value, 1, 2)) THEN NoMatch
    ELSE
      LET from == IF Len(value) >= 3 /\ At(value, 3) = " " THEN 4 ELSE 3
          rest == SubSeq(value, from, Len(value))
      IN IF rest = ""
         THEN [matched |-> TRUE, myriad |-> SubSeq(value, 1, 2),
               easting |-> "", northing |-> ""]
         ELSE IF \E d \in 1..5 : MatchDigitPair(rest, d)
         THEN LET d == CHOOSE x \in 1..5 : MatchDigitPair(rest, x)
              IN [matched |-> TRUE, myriad |-> SubSeq(value, 1, 2),
                  easting |-> SubSeq(rest, 1, d),
                  northing |-> SubSeq(rest, Len(rest) - d + 1, Len(rest))]
         ELSE NoMatch

\* ngrCre.Match(b)
Match(b) == ngrCre(b).matched

\* ------------------------------------------------------------ the errors
ErrBadlyFormatted == "badly formatted NGR"
ErrUnknownMyriad == "unknown myriad"
ErrMismatched == "mismatched GridRef easting northing lengths"
ErrUnknownGridRefMyriad == "unknown GridRef myriad"
ErrInvalidEasting == "invalid digits in NGR easting"
ErrInvalidNorthing == "invalid digits in NGR northing"
ErrDigitResolution == "digitResolution should be 0, 1, 2, 3, 4 or 5"
ErrWest == "outside UK - west of extents (northing untested)"
ErrEast == "outside UK - east of extents (northing untested)"
ErrSouth == "outside UK - south of extents (Easting Ok)"
ErrNorth == "outside UK - north of extents (Easting Ok)"

\* A returned pair (value, error); err = "" is Go's nil error.
Ok(v) == [res |-> v, err |-> ""]

Fail(e) == [res |-> Nil, err |-> e]

\* ------------------------------------------------------- the operations
\* NewGridRefFromString without the look-up of the myriad in myriadOffsets.
NewGridRefFromString_NoMyriadCheck(value) ==
    LET match == ngrCre(value)
        gridRef == IF Len(value) = 2 THEN GridRef(value, "", "")
                   ELSE GridRef(match.myriad, match.easting, match.northing)
    IN IF Len(value) # 2 /\ ~match.matched THEN Fail(ErrBadlyFormatted)
       ELSE IF Len(gridRef.easting) # Len(gridRef.northing) THEN Fail(ErrMismatched)
       ELSE Ok(gridRef)

\* The inputs are ASCII, so utf8.RuneCountInString(value) is Len(value). A
\* string of two runes skips the pattern and is taken whole as the myriad.
NewGridRefFromString(value) ==
    LET match == ngrCre(value)
        gridRef == IF Len(value) = 2 THEN GridRef(value, "", "")
                   ELSE GridRef(match.myriad, match.easting, match.northing)
    IN IF Len(value) # 2 /\ ~match.matched THEN Fail(ErrBadlyFormatted)
       ELSE IF gridRef.myriad \notin DOMAIN myriadOffsets THEN Fail(ErrUnknownMyriad)
       ELSE IF Len(gridRef.easting) # Len(gridRef.northing) THEN Fail(ErrMismatched)
       ELSE Ok(gridRef)

\* String writing the three fields with no space between them.
String_Tight(ngr) == ngr.myriad \o ngr.easting \o ngr.northing

String(ngr) ==
    IF ngr.easting # ""
    THEN ngr.myriad \o " " \o ngr.easting \o " " \o ngr.northing
    ELSE ngr.myriad

DigitResolution(ngr) == Len(ngr.easting)

ToLatLon(ngr) ==
    IF ngr.myriad \notin DOMAIN myriadOffsets THEN Fail(ErrUnknownGridRefMyriad)
    ELSE IF Len(ngr.easting) # Len(ngr.northing) THEN Fail(ErrMismatched)
    ELSE
      LET myriadOffset == myriadOffsets[ngr.myriad]
          parse == Len(ngr.easting) > 0
          e == Atoi(ngr.easting)
          n == Atoi(ngr.northing)
          easting == IF parse THEN e.val ELSE 0
          northing == IF parse THEN n.val ELSE 0
          factor == Pow10(5 - Len(ngr.easting))
      IN IF parse /\ ~e.ok THEN Fail(ErrInvalidEasting)
         ELSE IF parse /\ ~n.ok THEN Fail(ErrInvalidNorthing)
         ELSE Ok(GC(easting * factor + myriadOffset.Easting,
                    northing * factor + myriadOffset.Northing))

\* FloorDiv rounding to the nearest multiple instead of down.
FloorDiv_Nearest(x, factor) == (x + (factor \div 2)) \div factor

\* math.Floor(float64(x) / factor) for 0 <= x < 100000 and factor a power
\* of ten up to 10000: the float64 quotient is within one rounding of the
\* exact one and never crosses an integer, so it is the integer quotient.
FloorDiv(x, factor) == x \div factor

\* The indices into myriadTable: the row from the easting, the column from
\* the northing moved north by one myriad for the Channel Islands row.
RowIndex(coord) == GoDiv(coord.Easting, 100000)

ColumnIndex(coord) == GoDiv(coord.Northing + 100000, 100000)

\* ExtentsError with the northing checked before the easting.
ExtentsError_NorthingFirst(coord) ==
    IF coord.Northing + 100000 < 0 THEN ErrSouth
    ELSE IF GoDiv(coord.Northing + 100000, 100000) >= Len(myriadTable[1]) THEN ErrNorth
    ELSE IF coord.Easting < 0 THEN ErrWest
    ELSE IF GoDiv(coord.Easting, 100000) >= Len(myriadTable) THEN ErrEast
    ELSE ""

\* The extents checks of ToGridRef, in the order the code makes them; ""
\* when the coordinate lies inside the table.
ExtentsError(coord) ==
    IF coord.Easting < 0 THEN ErrWest
    ELSE IF RowIndex(coord) >= Len(myriadTable) THEN ErrEast
    ELSE IF coord.Northing + 100000 < 0 THEN ErrSouth
    ELSE IF ColumnIndex(coord) >= Len(myriadTable[RowIndex(coord) + 1]) THEN ErrNorth
    ELSE ""

ToGridRef(coord, digitResolution) ==
    IF digitResolution \notin DOMAIN formatLookup THEN Fail(ErrDigitResolution)
    ELSE IF ExtentsError(coord) # "" THEN Fail(ExtentsError(coord))
    ELSE
      LET config == formatLookup[digitResolution]
          myriad == TableAt(RowIndex(coord), ColumnIndex(coord))
          eastingAsInt == FloorDiv(GoRem(coord.Easting, 100000), config.factor)
          northingAsInt ==
              FloorDiv(GoRem(coord.Northing + 100000, 100000), config.factor)
      IN IF config.factor = 0 THEN Ok(GridRef(myriad, "", ""))
         ELSE Ok(GridRef(myriad,
                         Sprintf(config.format, eastingAsInt),
                         Sprintf(config.format, northingAsInt)))

\* ------------------------------------------------------------ the inputs
\* The digits start, start+1, ... (mod 10), L of them.
RECURSIVE DigitRun(_, _)
DigitRun(start, L) ==
    IF L <= 0 THEN "" ELSE At(DigitChars, (start % 10) + 1) \o DigitRun(start + 1, L - 1)

RECURSIVE Repeat(_, _)
Repeat(c, L) == IF L <= 0 THEN "" ELSE c \o Repeat(c, L - 1)

\* Strings handed to NewGridRefFromString: a head, a separator, a run of
\* digits, a separator, a second run of digits and a tail, so that good
\* references, odd digit counts, over-long references, lower case, unknown
\* myriads, doubled spaces and trailing content all occur.
InputStrings ==
    { head \o sep1 \o DigitRun(0, le) \o sep2 \o DigitRun(5, ln) \o tail :
        head \in {"", "T", "1", "TQ", "tq", "AA", "ZZ", "XA", "HF", "JH"},
        sep1 \in {"", " ", "  "},
        le \in 0..MaxDigits,
        sep2 \in {"", " ", "  "},
        ln \in 0..MaxDigits,
        tail \in {"", " ", "x"} }

\* Digit strings of length L: all zeros, all nines, and a run with a
\* leading zero.
SampleDigits(L) == { Repeat("0", L), Repeat("9", L), DigitRun(0, L) }

\* The GridRef values of the table of TestSimpleConversions and TestRounding.
FixtureGridRefs ==
    { GridRef("TQ", "30695", "80671"), GridRef("SH", "123", "124"),
      GridRef("HU", "473", "414"), GridRef("SP", "08", "86"),
      GridRef("XA", "0", "0"), GridRef("XD", "980", "240"),
      GridRef("XD", "923", "208"), GridRef("XD", "92356", "20839"),
      GridRef("TQ", "", ""), GridRef("NN", "166", "712"),
      GridRef("HU", "39668", "75316"), GridRef("NT", "26002", "73723"),
      GridRef("NW", "46298", "29866") }

\* GridRef struct literals a caller can build that the parser would not:
\* unknown myriads, digit strings of different lengths, invalid digits.
BrokenGridRefs ==
    { GridRef("AA", "", ""), GridRef("ZZ", "", ""), GridRef("AA", "12", "34"),
      GridRef("TQ", "12", "1"), GridRef("TQ", "", "1"), GridRef("TQ", "1a", "12"),
      GridRef("TQ", "12", "1a"), GridRef("TQ", "+1", "-1"), GridRef("TQ", " 1", "12") }

GridRefLiterals ==
    { GridRef(m, e, n) :
        m \in DOMAIN myriadOffsets,
        <<e, n>> \in UNION { SampleDigits(L) \X SampleDigits(L) : L \in 0..MaxDigits } }
    \cup FixtureGridRefs \cup BrokenGridRefs

\* Positions inside a myriad, in metres from its south-west corner.
CellOffsets == {0, 1, 26002, 73723, 99999}

\* Coordinates in every myriad of the table, on and off its corners, and
\* one metre and one myriad outside the table on each side.
Eastings ==
    { 100000 * i + o : i \in 0..(Len(myriadTable) - 1), o \in CellOffsets }
    \cup {-1, 100000 * Len(myriadTable), 326002, 530695}

Northings ==
    { 100000 * (j - 1) + o : j \in 0..(Len(myriadTable[1]) - 1), o \in CellOffsets }
    \cup {-100001, 100000 * (Len(myriadTable[1]) - 1), 673723, 180671}

GridCoords == { GC(e, n) : e \in Eastings, n \in Northings }

\* The resolutions of TestToNGR1 lie in this range.
Resolutions == (0 - ResolutionSlack)..(5 + ResolutionSlack)

\* -------------------------------------------------------------- the calls
\* calls is the chain of calls made so far, each on the result of the one
\* before: the operation, its receiver or argument, what it returned.
Call(op, arg, ret) == [op |-> op, arg |-> arg, res |-> ret.res, err |-> ret.err]

Last == calls[Len(calls)]

\* The previous call returned a value without error, from one of ops.
Returned(ops) == calls # <<>> /\ Last.err = "" /\ Last.op \in ops

StringArgs ==
    IF calls = <<>> THEN InputStrings
    ELSE IF Returned({"String"}) THEN {Last.res} ELSE {}

GridRefArgs ==
    IF calls = <<>> THEN GridRefLiterals
    ELSE IF Returned({"NewGridRefFromString", "ToGridRef"}) THEN {Last.res} ELSE {}

\* A coordinate converted from a GridRef is converted back at that GridRef's
\* DigitResolution(), as TestSimpleConversions does.
GridCoordArgs ==
    IF calls = <<>> THEN GridCoords \X Resolutions
    ELSE IF Returned({"ToLatLon"}) THEN {<<Last.res, DigitResolution(Last.arg)>>} ELSE {}

Init == calls = <<>>

NewGridRefFromStringCall ==
    /\ Len(calls) < MaxCalls
    /\ \E value \in StringArgs :
          calls' = Append(calls, Call("NewGridRefFromString", value,
                                      NewGridRefFromString(value)))

StringCall ==
    /\ Len(calls) < MaxCalls
    /\ \E ngr \in GridRefArgs :
          calls' = Append(calls, Call("String", ngr, Ok(String(ngr))))

ToLatLonCall ==
    /\ Len(calls) < MaxCalls
    /\ \E ngr \in GridRefArgs :
          calls' = Append(calls, Call("ToLatLon", ngr, ToLatLon(ngr)))

ToGridRefCall ==
    /\ Len(calls) < MaxCalls
    /\ \E a \in GridCoordArgs :
          calls' = Append(calls,
                          Call("ToGridRef", [coord |-> a[1], digitResolution |-> a[2]],
                               ToGridRef(a[1], a[2])))

\* ngrCre.Match on a two-letter string, as TestCre does.
MatchCall ==
    /\ calls = <<>>
    /\ \E a \in 1..Len(Letters), b \in 1..Len(Letters) :
          LET myriad == At(Letters, a) \o At(Letters, b)
          IN calls' = <<Call("Match", myriad, Ok(Match(myriad)))>>

\* myriadTable[i][j], as TestLookupTables reads it.
MyriadTableCall ==
    /\ calls = <<>>
    /\ \E i \in 0..(Len(myriadTable) - 1) :
          \E j \in 0..(Len(myriadTable[i + 1]) - 1) :
             calls' = <<Call("myriadTable", <<i, j>>, Ok(TableAt(i, j)))>>

Next ==
    \/ NewGridRefFromStringCall
    \/ StringCall
    \/ ToLatLonCall
    \/ ToGridRefCall
    \/ MatchCall
    \/ MyriadTableCall

Spec == Init /\ [][Next]_vars

\* ------------------------------------------------------------ the claims
\* A GridRef with a myriad of myriadOffsets and two strings of decimal
\* digits of the same length, 0 to 5.
WellFormed(g) ==
    /\ g.myriad \in DOMAIN myriadOffsets
    /\ Len(g.easting) = Len(g.northing)
    /\ Len(g.easting) \in 0..5
    /\ AllDigits(g.easting)
    /\ AllDigits(g.northing)

\* A coordinate inside the extents of the table.
Inside(c) ==
    /\ 0 <= c.Easting /\ c.Easting <= 799999
    /\ -100000 <= c.Northing /\ c.Northing <= 1399999

\* Call k was op and call k+1, made on its result, was next.
Followed(k, op, next) ==
    /\ k < Len(calls)
    /\ calls[k].op = op
    /\ calls[k + 1].op = next

\* C1: for every well-formed GridRef g of digit length r, g.ToLatLon()
\* succeeds, and ToGridRef(r) of the coordinate it returns succeeds and
\* returns g field for field, leading zeros included.
C1_CoordinateRoundTrip ==
    \A k \in 1..Len(calls) :
       (calls[k].op = "ToLatLon" /\ WellFormed(calls[k].arg)) =>
          /\ calls[k].err = ""
          /\ (/\ Followed(k, "ToLatLon", "ToGridRef")
              /\ calls[k + 1].arg.digitResolution = Len(calls[k].arg.easting))
             => (calls[k + 1].err = "" /\ calls[k + 1].res = calls[k].arg)

C1_Witness ==
    /\ Len(calls) = 2
    /\ calls[1].op = "ToLatLon"
    /\ calls[1].arg = GridRef("XD", "01234", "00000")
    /\ calls[2].op = "ToGridRef"
    /\ calls[2].arg.digitResolution = 5
    /\ calls[2].res = GridRef("XD", "01234", "00000")

\* The number a string of decimal digits denotes, digit by digit from the
\* left; 0 for the empty string.
RECURSIVE DecimalValue(_, _)
DecimalValue(s, acc) ==
    IF s = "" THEN acc ELSE DecimalValue(Tail(s), 10 * acc + DigitVal(Head(s)))

\* The test table of TestSimpleConversions named in the claim.
C2_Examples ==
    (GridRef("TQ", "30695", "80671") :> GC(530695, 180671)) @@
    (GridRef("SH", "123", "124") :> GC(212300, 312400)) @@
    (GridRef("XA", "", "") :> GC(0, -100000)) @@
    (GridRef("XD", "92356", "20839") :> GC(392356, -79161)) @@
    (GridRef("TQ", "", "") :> GC(500000, 100000))

\* C2: for every well-formed GridRef of digit length L, ToLatLon returns the
\* myriad's south-west corner plus the digit strings read as numbers, each
\* times 10^(5-L); the five examples of the claim give the stated values.
C2_ToLatLonResult ==
    \A k \in 1..Len(calls) :
       (calls[k].op = "ToLatLon" /\ WellFormed(calls[k].arg)) =>
          LET g == calls[k].arg
              L == Len(g.easting)
              offset == myriadOffsets[g.myriad]
          IN /\ calls[k].err = ""
             /\ calls[k].res =
                   GC(offset.Easting + DecimalValue(g.easting, 0) * (10 ^ (5 - L)),
                      offset.Northing + DecimalValue(g.northing, 0) * (10 ^ (5 - L)))
             /\ g \in DOMAIN C2_Examples => calls[k].res = C2_Examples[g]

C2_Witness ==
    /\ Len(calls) = 1
    /\ calls[1].op = "ToLatLon"
    /\ calls[1].arg = GridRef("SH", "123", "124")
    /\ calls[1].res = GC(212300, 312400)

\* C3: for a coordinate c inside the extents and r in 1..5, with
\* f = 10^(5-r), the GridRef of c.ToGridRef(r) converts back to the
\* south-west corner of the f-metre cell that holds c: both components are
\* multiples of f, at most c's and less than f below them. (326002, 673723)
\* at resolution 2 gives NT 26 73.
C3_Truncation ==
    \A k \in 1..Len(calls) :
       (/\ calls[k].op = "ToGridRef"
        /\ Inside(calls[k].arg.coord)
        /\ calls[k].arg.digitResolution \in 1..5) =>
          LET c == calls[k].arg.coord
              f == 10 ^ (5 - calls[k].arg.digitResolution)
          IN /\ calls[k].err = ""
             /\ (c = GC(326002, 673723) /\ calls[k].arg.digitResolution = 2)
                => calls[k].res = GridRef("NT", "26", "73")
             /\ Followed(k, "ToGridRef", "ToLatLon") =>
                   /\ calls[k + 1].err = ""
                   /\ calls[k + 1].res.Easting <= c.Easting
                   /\ c.Easting < calls[k + 1].res.Easting + f
                   /\ calls[k + 1].res.Northing <= c.Northing
                   /\ c.Northing < calls[k + 1].res.Northing + f
                   /\ calls[k + 1].res.Easting % f = 0
                   /\ calls[k + 1].res.Northing % f = 0

\* A Channel Islands coordinate with a negative northing, cut to 100 m.
C3_Witness ==
    /\ Len(calls) = 2
    /\ calls[1].op = "ToGridRef"
    /\ calls[1].arg = [coord |-> GC(373723, -26277), digitResolution |-> 3]
    /\ calls[2].op = "ToLatLon"
    /\ calls[2].res = GC(373700, -26300)

RECURSIVE SkipSpaces(_)
SkipSpaces(s) == IF s # "" /\ Head(s) = " " THEN SkipSpaces(Tail(s)) ELSE s

\* The grammar the claim states for a string that is not two characters
\* long: a myriad of the table, optional white space, N digits, an optional
\* single space, N digits, N in 1..5, and nothing else.
C4_Grammar(s) ==
    /\ Len(s) >= 2
    /\ SubSeq(s, 1, 2) \in DOMAIN myriadOffsets
    /\ LET t == SkipSpaces(SubSeq(s, 3, Len(s)))
       IN \E N \in 1..5 :
             /\ \/ Len(t) = 2 * N
                \/ Len(t) = 2 * N + 1 /\ At(t, N + 1) = " "
             /\ AllDigits(SubSeq(t, 1, N))
             /\ AllDigits(SubSeq(t, Len(t) - N + 1, Len(t)))

\* C4: a string that is not two characters long is accepted by
\* NewGridRefFromString only if it follows the grammar (myriad, optional
\* white space, a complete digit pair, nothing else); every other such
\* string fails with "badly formatted NGR".
C4_GrammarStrictness ==
    \A k \in 1..Len(calls) :
       (calls[k].op = "NewGridRefFromString" /\ Len(calls[k].arg) # 2) =>
          /\ calls[k].err = "" => C4_Grammar(calls[k].arg)
          /\ ~C4_Grammar(calls[k].arg) => calls[k].err = ErrBadlyFormatted

\* C5: for each of the 676 pairs of upper-case letters, ngrCre matches the
\* pair if and only if the pair is a key of myriadOffsets.
C5_AllowListEquivalence ==
    \A k \in 1..Len(calls) :
       calls[k].op = "Match" =>
          calls[k].res = (calls[k].arg \in DOMAIN myriadOffsets)

C5_Witness ==
    /\ Len(calls) = 1
    /\ calls[1].op = "Match"
    /\ calls[1].arg = "HF"
    /\ calls[1].res = TRUE

Product(A, B) == { a \o b : a \in A, b \in B }

\* The enumeration of the claim.
C6_SpecMyriads ==
    Product({"J"}, Range("F", "H")) \cup
    Product({"N", "S"}, Range("A", "H")) \cup
    Product({"H", "N", "S"}, Range("J", "Z")) \cup
    Product({"O", "T", "Y"}, {"A", "B", "C"}) \cup
    Product({"O", "T"}, {"F", "G", "H"}) \cup
    Product({"J", "O", "T"}, {"L", "M", "N"}) \cup
    Product({"J", "O", "T"}, {"Q", "R", "S"}) \cup
    Product({"J", "O", "T"}, {"V", "W", "X"}) \cup
    Product({"X"}, {"A", "B", "C", "D", "E"})

\* The enumeration with HF, HG and HH added.
C6_AmendedMyriads == C6_SpecMyriads \cup Product({"H"}, {"F", "G", "H"})

\* C6 as stated: a pair of letters is matched by ngrCre, and is a key of
\* myriadOffsets, exactly when it is in the enumeration of the claim.
C6_SpecEnumeration ==
    \A k \in 1..Len(calls) :
       calls[k].op = "Match" =>
          /\ calls[k].res = (calls[k].arg \in C6_SpecMyriads)
          /\ (calls[k].arg \in DOMAIN myriadOffsets) = (calls[k].arg \in C6_SpecMyriads)

\* C6 as amended: a pair of letters is matched by ngrCre, and is a key of
\* myriadOffsets, exactly when it is in the enumeration of the claim with
\* its first product read as {H,J} x {F,G,H}.
C6_AmendedEnumeration ==
    \A k \in 1..Len(calls) :
       calls[k].op = "Match" =>
          /\ calls[k].res = (calls[k].arg \in C6_AmendedMyriads)
          /\ (calls[k].arg \in DOMAIN myriadOffsets) = (calls[k].arg \in C6_AmendedMyriads)

C6_Witness ==
    /\ Len(calls) = 1
    /\ calls[1].op = "Match"
    /\ calls[1].arg = "HG"
    /\ calls[1].arg \notin C6_SpecMyriads
    /\ calls[1].res = TRUE

\* The index pairs of myriadTable.
TableIndices ==
    { <<i, j>> \in (0..(Len(myriadTable) - 1)) \X (0..14) : j < Len(myriadTable[i + 1]) }

\* C7: myriadTable holds no code twice, its codes are the keys of
\* myriadOffsets, and the code at (i, j) has the offset
\* (100000 * i, 100000 * (j - 1)).
C7_TableDuality ==
    \A k \in 1..Len(calls) :
       calls[k].op = "myriadTable" =>
          LET i == calls[k].arg[1]
              j == calls[k].arg[2]
              code == calls[k].res
          IN /\ code \in DOMAIN myriadOffsets
             /\ myriadOffsets[code] = GC(100000 * i, 100000 * (j - 1))
             /\ \A p \in TableIndices : myriadTable[p[1] + 1][p[2] + 1] = code => p = <<i, j>>
             /\ { myriadTable[p[1] + 1][p[2] + 1] : p \in TableIndices } = DOMAIN myriadOffsets

C7_Witness ==
    /\ Len(calls) = 1
    /\ calls[1].op = "myriadTable"
    /\ calls[1].arg = <<5, 2>>
    /\ calls[1].res = "TQ"

\* C8: at every resolution 0..5 ToGridRef succeeds exactly for the
\* coordinates inside the extents; west and east of them it fails with the
\* west and east errors whatever the northing, and inside them in easting it
\* fails south and north of them with the south and north errors.
C8_BoundaryRejection ==
    \A k \in 1..Len(calls) :
       (calls[k].op = "ToGridRef" /\ calls[k].arg.digitResolution \in 0..5) =>
          LET c == calls[k].arg.coord
              eastingOk == 0 <= c.Easting /\ c.Easting <= 799999
          IN /\ (calls[k].err = "") = Inside(c)
             /\ c.Easting < 0 => calls[k].err = ErrWest
             /\ c.Easting > 799999 => calls[k].err = ErrEast
             /\ (eastingOk /\ c.Northing < -100000) => calls[k].err = ErrSouth
             /\ (eastingOk /\ c.Northing > 1399999) => calls[k].err = ErrNorth

\* One metre outside on both axes: the easting decides.
C8_Witness ==
    /\ Len(calls) = 1
    /\ calls[1].op = "ToGridRef"
    /\ calls[1].arg = [coord |-> GC(-1, -100001), digitResolution |-> 3]
    /\ calls[1].err = ErrWest

\* C9: ToGridRef fails with the resolution error for every resolution
\* outside 0..5 whatever the coordinate, and for a coordinate inside the
\* extents succeeds at every resolution r in 0..5 with digit strings of
\* length r.
C9_ResolutionValidity ==
    \A k \in 1..Len(calls) :
       calls[k].op = "ToGridRef" =>
          LET r == calls[k].arg.digitResolution
          IN /\ r \notin 0..5 => calls[k].err = ErrDigitResolution
             /\ (r \in 0..5 /\ Inside(calls[k].arg.coord)) =>
                   /\ calls[k].err = ""
                   /\ DigitResolution(calls[k].res) = r
                   /\ Len(calls[k].res.northing) = r
                   /\ r = 0 => (calls[k].res.easting = "" /\ calls[k].res.northing = "")

\* A bad resolution on a coordinate that is also outside the extents.
C9_Witness ==
    /\ Len(calls) = 1
    /\ calls[1].op = "ToGridRef"
    /\ calls[1].arg = [coord |-> GC(-1, 1400000), digitResolution |-> 6]
    /\ calls[1].err = ErrDigitResolution

RECURSIVE RemoveSpaces(_)
RemoveSpaces(s) ==
    IF s = "" THEN ""
    ELSE IF Head(s) = " " THEN RemoveSpaces(Tail(s))
    ELSE Head(s) \o RemoveSpaces(Tail(s))

\* s in canonical form: the myriad alone, or the myriad, a space, the first
\* half of the digits, a space, the second half.
Canonical(s) ==
    LET t == RemoveSpaces(s)
        d == SubSeq(t, 3, Len(t))
        h == Len(d) \div 2
    IN IF d = "" THEN SubSeq(t, 1, 2)
       ELSE SubSeq(t, 1, 2) \o " " \o SubSeq(d, 1, h) \o " " \o SubSeq(d, h + 1, Len(d))

\* C10: String() of the GridRef parsed from an accepted string s is s in
\* canonical form; and the String() of a well-formed GridRef g parses, to g.
C10_StringRoundTrip ==
    \A k \in 1..Len(calls) :
       /\ (Followed(k, "NewGridRefFromString", "String") /\ calls[k].err = "")
          => calls[k + 1].res = Canonical(calls[k].arg)
       /\ (Followed(k, "String", "NewGridRefFromString") /\ WellFormed(calls[k].arg))
          => (calls[k + 1].err = "" /\ calls[k + 1].res = calls[k].arg)

C10_Witness ==
    /\ Len(calls) = 2
    /\ calls[1].op = "NewGridRefFromString"
    /\ calls[1].arg = "TQ0123456789"
    /\ calls[2].op = "String"
    /\ calls[2].res = "TQ 01234 56789"

\* C11: every GridRef that NewGridRefFromString or ToGridRef returns without
\* error has a myriad of myriadOffsets and two strings of decimal digits of
\* the same length, 0 to 5; and ToLatLon on it returns no error.
C11_ProducedWellFormed ==
    \A k \in 1..Len(calls) :
       (calls[k].op \in {"NewGridRefFromString", "ToGridRef"} /\ calls[k].err = "") =>
          /\ WellFormed(calls[k].res)
          /\ (k < Len(calls) /\ calls[k + 1].op = "ToLatLon") => calls[k + 1].err = ""

\* A spaced reference in the Channel Islands row, parsed and then converted.
C11_Witness ==
    /\ Len(calls) = 2
    /\ calls[1].op = "NewGridRefFromString"
    /\ calls[1].arg = "XA 01234 56789"
    /\ calls[1].res = GridRef("XA", "01234", "56789")
    /\ calls[2].op = "ToLatLon"
    /\ calls[2].res = GC(1234, -43211)

====
